---- MODULE Spec2Model ----
(***************************************************************************)
(* ReceiptPlacer (app.py, lambda_handler): one pass over the children of a *)
(* Drive folder that files each non-folder item under <root>/<year>/<month *)
(* name>, the date taken from the file name when it matches the date       *)
(* pattern and from createdTime otherwise.                                 *)
(*                                                                         *)
(* A string is the sequence of the Unicode code points of its characters   *)
(* (Python's str), so that the regular expression, strptime, fromisoformat *)
(* and str() are computed character by character, over every character a   *)
(* str can hold.  Codes(<<"a", "b">>) writes the string "ab".              *)
(* The Drive service is the shared variable store; every call on it is one *)
(* atomic step of a run.                                                   *)
(***************************************************************************)
EXTENDS Integers, Sequences, FiniteSets, TLC

VARIABLES
    store,            \* Drive: id -> [kind, name, parents, createdTime, trashed, creator]
    runs,             \* the invocations of lambda_handler that exist
    pc,               \* per run: position in lambda_handler
    items,            \* per run: response.get('files', []) of the listing
    idx,              \* per run: position of the for loop in items
    processed_count,  \* per run
    loc,              \* per run: year, month, year_folder_id, m, month_folder_id, current_parents
    result,           \* per run: the returned dict, or NoResult
    moved,            \* per run (history): ids counted by processed_count += 1
    log,              \* per run (history): what the two print calls reported
    sched,            \* the run that took the last step, and the preemptions so far
    probe             \* argument and outcome of one date resolution taken alone

vars == <<store, runs, pc, items, idx, processed_count, loc, result, moved, log, sched, probe>>

----------------------------------------------------------------------------
(* Characters *)

\* The printable ASCII characters in the order of their codes: 32..95 and
\* 97..126.
AsciiLow ==
    << " ", "!", "\"", "#", "$", "%", "&", "'", "(", ")", "*", "+", ",", "-", ".", "/",
       "0", "1", "2", "3", "4", "5", "6", "7", "8", "9", ":", ";", "<", "=", ">", "?",
       "@", "A", "B", "C", "D", "E", "F", "G", "H", "I", "J", "K", "L", "M", "N", "O",
       "P", "Q", "R", "S", "T", "U", "V", "W", "X", "Y", "Z", "[", "\\", "]", "^", "_" >>

AsciiHigh ==
    << "a", "b", "c", "d", "e", "f", "g", "h", "i", "j", "k", "l", "m", "n", "o", "p",
       "q", "r", "s", "t", "u", "v", "w", "x", "y", "z", "{", "|", "}", "~" >>

\* ord(c) of one of these characters, and the string of a tuple of them.
OrdOf == [c \in {AsciiLow[i] : i \in DOMAIN AsciiLow} \cup {AsciiHigh[i] : i \in DOMAIN AsciiHigh} |->
             IF \E i \in DOMAIN AsciiLow : AsciiLow[i] = c
             THEN 31 + CHOOSE i \in DOMAIN AsciiLow : AsciiLow[i] = c
             ELSE 96 + CHOOSE i \in DOMAIN AsciiHigh : AsciiHigh[i] = c]
Ord(c) == OrdOf[c]
Codes(t) == [i \in DOMAIN t |-> Ord(t[i])]

\* The character at position i; -1, which is no character, beyond either end.
At(s, i) == IF i \in 1..Len(s) THEN s[i] ELSE -1

\* '\d' of a str pattern is every Unicode decimal digit (category Nd).  The
\* digits come in runs of ten, '0' to '9' in order; these are the codes of
\* the zeros.
DigitBases ==
    { 48, 1632, 1776, 1984, 2406, 2534, 2662, 2790, 2918, 3046, 3174, 3302,
      3430, 3558, 3664, 3792, 3872, 4160, 4240, 6112, 6160, 6470, 6608, 6784,
      6800, 6992, 7088, 7232, 7248, 42528, 43216, 43264, 43472, 43504, 43600,
      44016, 65296, 66720, 68912, 69734, 69872, 69942, 70096, 70384, 70736,
      70864, 71248, 71360, 71472, 71904, 72016, 72784, 73040, 73120, 92768,
      92864, 93008, 120782, 120792, 120802, 120812, 120822, 123200, 123632,
      125264, 130032 }

IsDigit(c) == \E b \in DigitBases : c \in b..(b + 9)

\* int() of one decimal digit.
DigitVal(c) == c - (CHOOSE b \in DigitBases : c \in b..(b + 9))

\* '[A-Za-z]' under re.IGNORECASE: the ASCII letters and the characters
\* whose case folding is one, U+0130, U+0131 (i), U+017F (s), U+212A (k).
IsAlpha(c) == c \in (65..90) \cup (97..122) \cup {304, 305, 383, 8490}

\* '\s' of a str pattern.
IsSpace(c) == c \in (9..13) \cup (28..32) \cup {133, 160, 5760} \cup (8192..8202)
                    \cup {8232, 8233, 8239, 8287, 12288}

\* '.' without re.DOTALL: everything but the line feed.
IsDot(c) == c # 10

\* The character c matches the lower-case ASCII letter l of a pattern
\* compiled with re.IGNORECASE.
CaseEq(c, l) ==
    \/ c = l
    \/ c = l - 32
    \/ l = Ord("s") /\ c = 383
    \/ l = Ord("k") /\ c = 8490
    \/ l = Ord("i") /\ c \in {304, 305}

\* str.lower() of a character '[A-Za-z]' matches under re.IGNORECASE, as a
\* string: U+0130 lowers to two characters, U+212A to 'k', and U+0131 and
\* U+017F are their own lower case.
Lower(c) == IF c \in 65..90 THEN <<c + 32>>
            ELSE IF c = 304 THEN <<105, 775>>
            ELSE IF c = 8490 THEN <<107>>
            ELSE <<c>>

RECURSIVE LowerSeq(_)
LowerSeq(s) == IF s = <<>> THEN <<>> ELSE Lower(Head(s)) \o LowerSeq(Tail(s))

\* int() of the n digits of s that start at position i.
RECURSIVE IntAt(_, _, _)
IntAt(s, i, n) == IF n = 0 THEN 0
                  ELSE IntAt(s, i, n - 1) * 10 + DigitVal(s[i + n - 1])

AllDigits(s, i, n) == \A k \in i..(i + n - 1) : IsDigit(At(s, k))

\* The position after the longest run of whitespace that starts at i.
RECURSIVE SpacesEnd(_, _)
SpacesEnd(s, i) == IF IsSpace(At(s, i)) THEN SpacesEnd(s, i + 1) ELSE i

\* str(n) for n >= 0.
RECURSIVE Str(_)
Str(n) == IF n < 10 THEN <<48 + n>>
          ELSE Append(Str(n \div 10), 48 + (n % 10))

----------------------------------------------------------------------------
(* pattern: '^.*(alt1|alt2|alt3).*\.pdf$', re.IGNORECASE.  Each AltK(s, i)  *)
(* is the position after the text alternative K matches at i, 0 if none.   *)

\* \d{1,2} followed by the literal c: the number of digits taken, 0 if none.
Digits12Then(s, i, c) ==
    IF IsDigit(At(s, i)) /\ IsDigit(At(s, i + 1)) /\ At(s, i + 2) = c THEN 2
    ELSE IF IsDigit(At(s, i)) /\ At(s, i + 1) = c THEN 1
    ELSE 0

\* [A-Za-z]{3}\s+\d{1,2},\s+\d{4}
Alt1(s, i) ==
    IF ~(IsAlpha(At(s, i)) /\ IsAlpha(At(s, i + 1)) /\ IsAlpha(At(s, i + 2))
         /\ IsSpace(At(s, i + 3)))
    THEN 0
    ELSE LET b == SpacesEnd(s, i + 3)
             n == Digits12Then(s, b, Ord(","))
             c == b + n + 1
         IN IF n = 0 \/ ~IsSpace(At(s, c)) THEN 0
            ELSE LET d == SpacesEnd(s, c)
                 IN IF AllDigits(s, d, 4) THEN d + 4 ELSE 0

\* \d{1,2}/\d{1,2}/\d{4}
Alt2(s, i) ==
    LET n1 == Digits12Then(s, i, Ord("/"))
        j  == i + n1 + 1
        n2 == Digits12Then(s, j, Ord("/"))
        k  == j + n2 + 1
    IN IF n1 # 0 /\ n2 # 0 /\ AllDigits(s, k, 4) THEN k + 4 ELSE 0

\* \d{4}-\d{1,2}-\d{1,2}   (the last \d{1,2} is greedy)
Alt3(s, i) ==
    LET n1 == Digits12Then(s, i + 5, Ord("-"))
        k  == i + 5 + n1 + 1
    IN IF AllDigits(s, i, 4) /\ At(s, i + 4) = Ord("-") /\ n1 # 0 /\ IsDigit(At(s, k))
       THEN (IF IsDigit(At(s, k + 1)) THEN k + 2 ELSE k + 1)
       ELSE 0

\* The alternatives in the order the pattern lists them.
AltEnd(s, i) == IF Alt1(s, i) # 0 THEN Alt1(s, i)
                ELSE IF Alt2(s, i) # 0 THEN Alt2(s, i)
                ELSE Alt3(s, i)

\* '$' matches at the end and before a final line feed.
EffLen(s) == IF Len(s) > 0 /\ s[Len(s)] = 10 THEN Len(s) - 1 ELSE Len(s)

\* '\.pdf$' under IGNORECASE.
EndsPdf(s) ==
    LET n == EffLen(s)
    IN n >= 4 /\ s[n - 3] = Ord(".") /\ CaseEq(s[n - 2], Ord("p"))
              /\ CaseEq(s[n - 1], Ord("d")) /\ CaseEq(s[n], Ord("f"))

\* The whole pattern matches with group 1 starting at i.
MatchesAt(s, i) ==
    /\ EndsPdf(s)
    /\ AltEnd(s, i) # 0
    /\ AltEnd(s, i) <= EffLen(s) - 3
    /\ \A k \in 1..(i - 1) : IsDot(s[k])
    /\ \A k \in AltEnd(s, i)..(EffLen(s) - 4) : IsDot(s[k])

MatchStarts(s) == {i \in 1..Len(s) : MatchesAt(s, i)}

\* The leading '.*' is greedy: the engine tries the longest prefix first, so
\* group 1 is the match with the LARGEST start position.
GroupStart(S) == CHOOSE i \in S : \A j \in S : j <= i

NoMatch == <<>>

\* pattern.match(file_name) and m.group(1): NoMatch when the pattern fails.
PatternGroup(s) ==
    IF MatchStarts(s) = {} THEN NoMatch
    ELSE LET i == GroupStart(MatchStarts(s))
         IN SubSeq(s, i, AltEnd(s, i) - 1)

----------------------------------------------------------------------------
(* datetime.strptime.  _strptime turns the format into a regular           *)
(* expression (re.IGNORECASE, a blank of the format becoming '\s+'), takes *)
(* its first match at the start of the string, raises ValueError when text *)
(* is left over, and then builds the date, which raises ValueError for a   *)
(* day the month does not have and for year 0.  Fail stands for the        *)
(* exception.                                                              *)

Fail == <<>>

MonthAbbr == << Codes(<<"j","a","n">>), Codes(<<"f","e","b">>), Codes(<<"m","a","r">>),
                Codes(<<"a","p","r">>), Codes(<<"m","a","y">>), Codes(<<"j","u","n">>),
                Codes(<<"j","u","l">>), Codes(<<"a","u","g">>), Codes(<<"s","e","p">>),
                Codes(<<"o","c","t">>), Codes(<<"n","o","v">>), Codes(<<"d","e","c">>) >>

IsLeap(y) == (y % 4 = 0 /\ y % 100 # 0) \/ y % 400 = 0

DaysInMonth(y, m) == IF m = 2 THEN (IF IsLeap(y) THEN 29 ELSE 28)
                     ELSE IF m \in {4, 6, 9, 11} THEN 30 ELSE 31

\* datetime_date(year, month, day) succeeds.
ValidDate(y, m, d) == y >= 1 /\ y <= 9999 /\ m \in 1..12 /\ d >= 1 /\ d <= DaysInMonth(y, m)

\* [1-9]
Nz(c) == c \in 49..57

\* %d is (3[0-1]|[1-2]\d|0[1-9]|[1-9]| [1-9]): the alternatives that match at
\* i, in that order, each with its value and the position after it.
DirD(s, i) ==
    LET a == At(s, i)
        b == At(s, i + 1)
        all == << [ok |-> a = Ord("3") /\ b \in {Ord("0"), Ord("1")}, val |-> IF IsDigit(b) THEN 30 + DigitVal(b) ELSE 0, next |-> i + 2],
                  [ok |-> a \in {Ord("1"), Ord("2")} /\ IsDigit(b), val |-> IF IsDigit(a) /\ IsDigit(b) THEN IntAt(s, i, 2) ELSE 0, next |-> i + 2],
                  [ok |-> a = Ord("0") /\ Nz(b), val |-> IF IsDigit(b) THEN DigitVal(b) ELSE 0, next |-> i + 2],
                  [ok |-> Nz(a), val |-> IF IsDigit(a) THEN DigitVal(a) ELSE 0, next |-> i + 1],
                  [ok |-> a = Ord(" ") /\ Nz(b), val |-> IF IsDigit(b) THEN DigitVal(b) ELSE 0, next |-> i + 2] >>
    IN SelectSeq(all, LAMBDA c : c.ok)

\* %m is (1[0-2]|0[1-9]|[1-9]).
DirM(s, i) ==
    LET a == At(s, i)
        b == At(s, i + 1)
        all == << [ok |-> a = Ord("1") /\ b \in {Ord("0"), Ord("1"), Ord("2")}, val |-> IF IsDigit(b) THEN 10 + DigitVal(b) ELSE 0, next |-> i + 2],
                  [ok |-> a = Ord("0") /\ Nz(b), val |-> IF IsDigit(b) THEN DigitVal(b) ELSE 0, next |-> i + 2],
                  [ok |-> Nz(a), val |-> IF IsDigit(a) THEN DigitVal(a) ELSE 0, next |-> i + 1] >>
    IN SelectSeq(all, LAMBDA c : c.ok)

\* The candidates of cands after which the literal character lit stands.
Before(s, cands, lit) == SelectSeq(cands, LAMBDA c : At(s, c.next) = lit)

\* The date of a completed match that ended before position e.
Built(s, e, y, m, d) == IF e = Len(s) + 1 /\ ValidDate(y, m, d) THEN <<y, m>> ELSE Fail

\* strptime(s, "%b %d, %Y"): (jan|...|dec)\s+%d,\s+\d\d\d\d.  The month is
\* the index of the lower-cased group in the list of abbreviations, and
\* list.index raises ValueError for text that matched only by case folding.
Strptime1(s) ==
    LET matched == {k \in 1..12 : \A i \in 1..3 : CaseEq(At(s, i), MonthAbbr[k][i])}
        ms == {k \in matched : MonthAbbr[k] = LowerSeq(SubSeq(s, 1, 3))}
        p  == SpacesEnd(s, 4)
        \* \s+ is greedy and gives back one character at a time
        qs == {q \in 5..p : Before(s, DirD(s, q), Ord(",")) # <<>>}
    IN IF Len(s) < 3 \/ ms = {} \/ qs = {} THEN Fail
       ELSE LET q == CHOOSE x \in qs : \A z \in qs : z <= x
                d == Before(s, DirD(s, q), Ord(","))[1]
                c == d.next + 1
                e == SpacesEnd(s, c)
            IN IF IsSpace(At(s, c)) /\ AllDigits(s, e, 4)
               THEN Built(s, e + 4, IntAt(s, e, 4), CHOOSE k \in ms : TRUE, d.val)
               ELSE Fail

\* strptime(s, "%m/%d/%Y")
Strptime2(s) ==
    LET DaysAfter(c) == SelectSeq(Before(s, DirD(s, c.next + 1), Ord("/")),
                                  LAMBDA d : AllDigits(s, d.next + 1, 4))
        ms == SelectSeq(Before(s, DirM(s, 1), Ord("/")), LAMBDA c : DaysAfter(c) # <<>>)
    IN IF ms = <<>> THEN Fail
       ELSE LET d == DaysAfter(ms[1])[1]
            IN Built(s, d.next + 5, IntAt(s, d.next + 1, 4), ms[1].val, d.val)

\* strptime(s, "%Y-%m-%d")
Strptime3(s) ==
    LET ms == SelectSeq(Before(s, DirM(s, 6), Ord("-")), LAMBDA c : DirD(s, c.next + 1) # <<>>)
    IN IF ~(AllDigits(s, 1, 4) /\ At(s, 5) = Ord("-")) \/ ms = <<>> THEN Fail
       ELSE LET d == DirD(s, ms[1].next + 1)[1]
            IN Built(s, d.next, IntAt(s, 1, 4), ms[1].val, d.val)

\* parse_date_string: the three formats in sequence, ValueError after the last.
parse_date_string(date_str) ==
    IF Strptime1(date_str) # Fail THEN Strptime1(date_str)
    ELSE IF Strptime2(date_str) # Fail THEN Strptime2(date_str)
    ELSE Strptime3(date_str)

----------------------------------------------------------------------------
(* createdTime: created_str.replace('Z', '+00:00'), datetime.fromisoformat *)
(* as CPython 3.11 computes it: on the UTF-8 bytes of the string, a byte   *)
(* position being 0 (the terminator) beyond the end.                       *)

RECURSIVE ReplaceZ(_)
ReplaceZ(s) == IF s = <<>> THEN <<>>
               ELSE IF Head(s) = Ord("Z") THEN Codes(<<"+","0","0",":","0","0">>) \o ReplaceZ(Tail(s))
               ELSE <<Head(s)>> \o ReplaceZ(Tail(s))

IsSurrogate(c) == c \in 55296..57343

\* _sanitize_isoformat_str: a surrogate in the place of the separator (the
\* first one at offset 7, 8 or 10) becomes 'T'.
Sanitize(s) ==
    LET at == {p \in {7, 8, 10} : p < Len(s) /\ IsSurrogate(s[p + 1])}
    IN IF at = {} THEN s
       ELSE [s EXCEPT ![1 + CHOOSE p \in at : \A q \in at : p <= q] = Ord("T")]

Utf8(c) == IF c < 128 THEN <<c>>
           ELSE IF c < 2048 THEN <<192 + (c \div 64), 128 + (c % 64)>>
           ELSE IF c < 65536 THEN <<224 + (c \div 4096), 128 + ((c \div 64) % 64), 128 + (c % 64)>>
           ELSE <<240 + (c \div 262144), 128 + ((c \div 4096) % 64),
                  128 + ((c \div 64) % 64), 128 + (c % 64)>>

RECURSIVE Utf8Seq(_)
Utf8Seq(s) == IF s = <<>> THEN <<>> ELSE Utf8(Head(s)) \o Utf8Seq(Tail(s))

\* The byte at position p (from 1), the terminator beyond the end.
ByteAt(b, p) == IF p \in 1..Len(b) THEN b[p] ELSE 0

\* is_digit: an ASCII digit.
IsByteDigit(x) == x \in 48..57

\* parse_digits: the position after n digits at p, 0 (NULL) without them.
ParseDigits(b, p, n) == IF \A k \in p..(p + n - 1) : IsByteDigit(ByteAt(b, k)) THEN p + n ELSE 0

RECURSIVE ByteInt(_, _, _)
ByteInt(b, p, n) == IF n = 0 THEN 0 ELSE ByteInt(b, p, n - 1) * 10 + (b[p + n - 1] - 48)

\* _find_isoformat_datetime_separator: the offset of the separator.
FindSeparator(b) ==
    LET len == Len(b)
        c(k) == ByteAt(b, k + 1)
        nondigit == {k \in 7..len : k = len \/ ~IsByteDigit(c(k))}
        stop == CHOOSE k \in nondigit : \A j \in nondigit : k <= j
    IN IF len = 7 THEN 7
       ELSE IF c(4) = Ord("-")
       THEN IF c(5) = Ord("W")
            THEN IF len < 8 THEN -1
                 ELSE IF len > 8 /\ c(8) = Ord("-")
                 THEN IF len = 9 THEN -1
                      ELSE IF len > 10 /\ IsByteDigit(c(10)) THEN 8
                      ELSE 10
                 ELSE 8
            ELSE 10
       ELSE IF c(4) = Ord("W")
       THEN IF stop < 9 THEN stop
            ELSE IF stop % 2 = 0 THEN 7
            ELSE 8
       ELSE 8

\* days_before_year, weekday of 1 January (Monday 0), iso_week1_monday.
DaysBeforeYear(y) == (y - 1) * 365 + ((y - 1) \div 4) - ((y - 1) \div 100) + ((y - 1) \div 400)
FirstWeekday(y) == (DaysBeforeYear(y) + 7) % 7
Week1Monday(y) == DaysBeforeYear(y) + 1 - FirstWeekday(y) + (IF FirstWeekday(y) > 3 THEN 7 ELSE 0)

\* The month of the n-th day (from 1) of year y.
RECURSIVE MonthOfDay(_, _, _)
MonthOfDay(y, n, m) == IF n <= DaysInMonth(y, m) THEN m
                       ELSE MonthOfDay(y, n - DaysInMonth(y, m), m + 1)

\* iso_to_ymd and the range check of the date built from it: the (year,
\* month) of day iso_day of week iso_week of ISO year y, Fail when there is
\* none.  No week of year 0 holds a day of year 1.
IsoToYm(y, iso_week, iso_day) ==
    LET weekOk == \/ iso_week \in 1..52
                  \/ iso_week = 53 /\ (FirstWeekday(y) = 3 \/ (FirstWeekday(y) = 2 /\ IsLeap(y)))
        n == Week1Monday(y) + (iso_week - 1) * 7 + iso_day - 1 - DaysBeforeYear(y)
        len == IF IsLeap(y) THEN 366 ELSE 365
    IN IF y < 1 \/ ~weekOk \/ iso_day \notin 1..7 THEN Fail
       ELSE IF n < 1 THEN (IF y - 1 >= 1 THEN <<y - 1, 12>> ELSE Fail)
       ELSE IF n > len THEN (IF y + 1 <= 9999 THEN <<y + 1, 1>> ELSE Fail)
       ELSE <<y, MonthOfDay(y, n, 1)>>

\* parse_isoformat_date on the first len bytes, with the check of the date
\* built from its result: (year, month), or Fail.
ParseIsoDate(b, len) ==
    LET sep  == ByteAt(b, 5) = Ord("-")
        p    == IF sep THEN 6 ELSE 5
        y    == ByteInt(b, 1, 4)
    IN IF ParseDigits(b, 1, 4) = 0 THEN Fail
       ELSE IF ByteAt(b, p) = Ord("W")
       THEN LET q == ParseDigits(b, p + 1, 2)
            IN IF q = 0 THEN Fail
               ELSE IF q - 1 < len
               THEN LET d == IF sep THEN q + 1 ELSE q
                    IN IF sep /\ ByteAt(b, q) # Ord("-") THEN Fail
                       ELSE IF ParseDigits(b, d, 1) = 0 THEN Fail
                       ELSE IsoToYm(y, ByteInt(b, p + 1, 2), ByteInt(b, d, 1))
               ELSE IsoToYm(y, ByteInt(b, p + 1, 2), 1)
       ELSE LET q == ParseDigits(b, p, 2)
                d == IF sep THEN q + 1 ELSE q
            IN IF q = 0 THEN Fail
               ELSE IF sep /\ ByteAt(b, q) # Ord("-") THEN Fail
               ELSE IF ParseDigits(b, d, 2) = 0 THEN Fail
               ELSE IF ValidDate(y, ByteInt(b, p, 2), ByteInt(b, d, 2)) THEN <<y, ByteInt(b, p, 2)>>
               ELSE Fail

\* parse_hh_mm_ss_ff, the fraction: up to six digits are read and further
\* ones skipped; rv is 1 when text is left and -3 for a malformed fraction.
ClockFraction(b, p, pend, vals) ==
    LET n == IF pend - p >= 6 THEN 6 ELSE pend - p
        q == ParseDigits(b, p, n)
        rest == {k \in q..(Len(b) + 1) : ~IsByteDigit(ByteAt(b, k))}
        e == CHOOSE k \in rest : \A j \in rest : k <= j
    IN IF q = 0 THEN [rv |-> -3, vals |-> vals]
       ELSE [rv |-> IF ByteAt(b, e) # 0 THEN 1 ELSE 0, vals |-> vals]

\* parse_hh_mm_ss_ff on the bytes from p up to pend: [HH[:?MM[:?SS]]] in
\* round i of three, has_separator decided by the character after HH.
\* vals are the components read so far (the others are 0).
RECURSIVE ClockLoop(_, _, _, _, _, _)
ClockLoop(b, p, pend, i, has_separator, vals) ==
    IF i = 3 THEN ClockFraction(b, p, pend, vals)
    ELSE LET q  == ParseDigits(b, p, 2)
             c  == ByteAt(b, q)
             hs == IF i = 0 THEN c = Ord(":") ELSE has_separator
             v  == Append(vals, ByteInt(b, p, 2))
         IN IF q = 0 THEN [rv |-> -3, vals |-> vals]
            ELSE IF q + 1 >= pend THEN [rv |-> IF c # 0 THEN 1 ELSE 0, vals |-> v]
            ELSE IF hs /\ c = Ord(":") THEN ClockLoop(b, q + 1, pend, i + 1, hs, v)
            ELSE IF c \in {Ord("."), Ord(",")} THEN ClockFraction(b, q + 1, pend, v)
            ELSE IF ~hs THEN ClockLoop(b, q, pend, i + 1, hs, v)
            ELSE [rv |-> -4, vals |-> v]

\* Component k of a clock reading, 0 when it was not read.
Component(vals, k) == IF k <= Len(vals) THEN vals[k] ELSE 0

\* parse_isoformat_time on the bytes from p to the end, with the checks of
\* the time and of the time zone built from its result.
IsoTimeOk(b, p) ==
    LET pend == Len(b) + 1
        tzs  == {k \in p..(pend - 1) : ByteAt(b, k) \in {Ord("Z"), Ord("+"), Ord("-")}}
        tz   == IF tzs = {} THEN (IF p < pend THEN pend ELSE pend + 1)
                ELSE CHOOSE k \in tzs : \A j \in tzs : k <= j
        t    == ClockLoop(b, p, tz, 0, TRUE, <<>>)
        o    == ClockLoop(b, tz + 1, pend, 0, TRUE, <<>>)
        timeOk == Component(t.vals, 1) < 24 /\ Component(t.vals, 2) < 60 /\ Component(t.vals, 3) < 60
    IN IF t.rv < 0 THEN FALSE
       ELSE IF tz = pend THEN t.rv = 0 /\ timeOk
       ELSE IF ByteAt(b, tz) = Ord("Z") THEN ByteAt(b, tz + 1) = 0 /\ timeOk
       ELSE /\ o.rv = 0
            /\ timeOk
            \* timezone(timedelta): strictly less than a day
            /\ Component(o.vals, 1) * 3600 + Component(o.vals, 2) * 60 + Component(o.vals, 3) < 86400

\* The bytes the separator takes: the length UTF-8 codes in its first byte.
SeparatorLen(x) == IF x < 128 THEN 1
                   ELSE IF x \div 16 = 14 THEN 3
                   ELSE IF x \div 16 = 15 THEN 4
                   ELSE 2

\* datetime.fromisoformat(s): (year, month) of the result, Fail for the
\* ValueError.
FromIsoFormat(s) ==
    LET clean == Sanitize(s)
        b     == Utf8Seq(clean)
        sep   == FindSeparator(b)
        date  == ParseIsoDate(b, sep)
    IN IF Len(s) < 7 \/ \E i \in DOMAIN clean : IsSurrogate(clean[i]) THEN Fail
       ELSE IF date = Fail THEN Fail
       ELSE IF Len(b) > sep
       THEN (IF IsoTimeOk(b, sep + 1 + SeparatorLen(ByteAt(b, sep + 1))) THEN date ELSE Fail)
       ELSE date

\* A field the listing entry does not carry: info.get(...) is None, which
\* is no string.
None == <<-1>>

\* The resolution with createdTime as a second chance for a matched name
\* that does not parse.
ResolveFallback(file_name, created_str) ==
    IF PatternGroup(file_name) # NoMatch /\ parse_date_string(PatternGroup(file_name)) # Fail
    THEN parse_date_string(PatternGroup(file_name))
    ELSE IF created_str = None THEN Fail
    ELSE FromIsoFormat(ReplaceZ(created_str))

\* Lines 191-204: the (year, month) of one listed file, Fail when the try
\* block raises.  created_str is None when the entry has no createdTime, and
\* None.replace raises AttributeError.
Resolve(file_name, created_str) ==
    IF PatternGroup(file_name) # NoMatch
    THEN parse_date_string(PatternGroup(file_name))
    ELSE IF created_str = None THEN Fail
    ELSE FromIsoFormat(ReplaceZ(created_str))

----------------------------------------------------------------------------
(* The Drive store and the listing *)

ROOT == 0      \* parent_folder_id

FOLDER == "application/vnd.google-apps.folder"
PDF == "application/pdf"

MONTH_MAP == << Codes(<<"J","a","n","u","a","r","y">>), Codes(<<"F","e","b","r","u","a","r","y">>),
                Codes(<<"M","a","r","c","h">>), Codes(<<"A","p","r","i","l">>), Codes(<<"M","a","y">>),
                Codes(<<"J","u","n","e">>), Codes(<<"J","u","l","y">>), Codes(<<"A","u","g","u","s","t">>),
                Codes(<<"S","e","p","t","e","m","b","e","r">>), Codes(<<"O","c","t","o","b","e","r">>),
                Codes(<<"N","o","v","e","m","b","e","r">>), Codes(<<"D","e","c","e","m","b","e","r">>) >>

Fields == {"id", "name", "mimeType", "createdTime"}

\* One element of response['files'] for the object id of store st.
Entry(st, id) == [id |-> id, name |-> st[id].name, mimeType |-> st[id].kind,
                  createdTime |-> st[id].createdTime, has |-> Fields]

\* files().list(q = "'<parent>' in parents and trashed = false").
InParent(st, id, parent_id) == parent_id \in st[id].parents /\ ~st[id].trashed

RECURSIVE ListFrom(_, _)
ListFrom(st, id) ==
    IF id > Len(st) THEN <<>>
    ELSE (IF InParent(st, id, ROOT) THEN <<Entry(st, id)>> ELSE <<>>) \o ListFrom(st, id + 1)

Listing(st) == ListFrom(st, 1)

\* The query without its "'<parent_id>' in parents" clause.
FolderMatchesAnyParent(st, id, folder_name, parent_id) ==
    /\ st[id].kind = FOLDER
    /\ st[id].name = folder_name
    /\ ~st[id].trashed

\* The query with "trashed = true" for "trashed = false".
FolderMatchesTrashed(st, id, folder_name, parent_id) ==
    /\ st[id].kind = FOLDER
    /\ st[id].name = folder_name
    /\ parent_id \in st[id].parents
    /\ st[id].trashed

\* The query of find_or_create_folder: a folder, of that exact name, under
\* that parent, not trashed.
FolderMatches(st, id, folder_name, parent_id) ==
    /\ st[id].kind = FOLDER
    /\ st[id].name = folder_name
    /\ parent_id \in st[id].parents
    /\ ~st[id].trashed

FoundFolders(st, folder_name, parent_id) ==
    {id \in DOMAIN st : FolderMatches(st, id, folder_name, parent_id)}

\* The time the store stamps on what the runs create.
NowTime == Codes(<<"2","0","2","5","-","0","3","-","0","1","T","0","0",":","0","0",":","0","0","Z">>)

\* files().create(body = {name, mimeType: folder, parents: [parent_id]}).
NewFolder(folder_name, parent_id, by) ==
    [kind |-> FOLDER, name |-> folder_name, parents |-> {parent_id},
     createdTime |-> NowTime, trashed |-> FALSE, creator |-> by]

\* The update without removeParents.
AddOnly(parents, add, remove) == parents \cup {add}

\* files().update(addParents = add, removeParents = ",".join(remove)).

UpdatedParents(parents, add, remove) == (parents \ remove) \cup {add}

----------------------------------------------------------------------------
(* Initial stores *)

MaxFiles == 2        \* files under the root before a run
MaxPreemptions == 1  \* times a run is interrupted by a step of the other run

\* Object 1: a folder outside the root, a second parent for some files.
Elsewhere == [kind |-> FOLDER, name |-> Codes(<<"E","l","s","e","w","h","e","r","e">>),
              parents |-> {}, createdTime |-> NowTime, trashed |-> FALSE, creator |-> 0]

Time2024Nov == Codes(<<"2","0","2","4","-","1","1","-","0","3","T","1","0",":","0","0",":","0","0","Z">>)

Time2025Feb == Codes(<<"2","0","2","5","-","0","2","-","2","7","T","1","5",":","0","0",":","0","3",".","0","0","0","Z">>)

FileObject(name, created, parents) ==
    [kind |-> PDF, name |-> name, parents |-> parents, createdTime |-> created,
     trashed |-> FALSE, creator |-> 0]

\* A name with a date, two names without one, a name whose date no layout
\* parses.
FileChoices ==
    { FileObject(Codes(<<"I","n","v","o","i","c","e"," ","F","e","b"," ","2","7",","," ","2","0","2","5",".","p","d","f">>),
                 Time2024Nov, {ROOT, 1}),
      FileObject(Codes(<<"s","c","a","n",".","p","d","f">>), Time2024Nov, {ROOT}),
      FileObject(Codes(<<"n","o","t","e","s",".","t","x","t">>), Time2025Feb, {ROOT}),
      FileObject(Codes(<<"0","2","/","3","1","/","2","0","2","5",".","p","d","f">>), Time2024Nov, {ROOT}) }

FileSeqs(n) == UNION {[1..k -> FileChoices] : k \in 0..n}

PreYearName == Codes(<<"2","0","2","5">>)

\* Object 2 a year folder under the root, then one folder per month of months
\* under it, those of trashedMonths in the trash.
RECURSIVE MonthObjects(_, _, _)
MonthObjects(k, months, trashedMonths) ==
    IF k > 12 THEN <<>>
    ELSE (IF k \in months
          THEN << [NewFolder(MONTH_MAP[k], 2, 0) EXCEPT !.trashed = k \in trashedMonths] >>
          ELSE <<>>) \o MonthObjects(k + 1, months, trashedMonths)

PreStore(yearTrashed, months, trashedMonths) ==
    << [NewFolder(PreYearName, ROOT, 0) EXCEPT !.trashed = yearTrashed] >>
    \o MonthObjects(1, months, trashedMonths)

PreStores == { <<>>,
               PreStore(FALSE, {}, {}),
               PreStore(FALSE, {2}, {}),
               PreStore(FALSE, {1, 2, 12}, {2}),
               PreStore(FALSE, 1..12, {}),
               PreStore(TRUE, {}, {}) }

----------------------------------------------------------------------------
(* lambda_handler *)

NoResult == [statusCode |-> 0, processed |-> 0, totalItemsFound |-> 0]
NoProbe == [name |-> <<>>, created |-> <<>>, out |-> <<>>, stage |-> "none"]

\* The invocations there may be; runs holds those that are.
RunIds == {1, 2}

LocInit == [year |-> 0, month |-> 0, year_folder_id |-> 0, m |-> 0,
            month_folder_id |-> 0, current_parents |-> {}]

InitRuns(rs, st) ==
    /\ store = st
    /\ runs = rs
    /\ pc = [r \in rs |-> "list"]
    /\ items = [r \in rs |-> <<>>]
    /\ idx = [r \in rs |-> 1]
    /\ processed_count = [r \in rs |-> 0]
    /\ loc = [r \in rs |-> LocInit]
    /\ result = [r \in rs |-> NoResult]
    /\ moved = [r \in rs |-> {}]
    /\ log = [r \in rs |-> {}]
    /\ sched = [last |-> 0, preemptions |-> 0]
    /\ probe = NoProbe

Init == \E pre \in PreStores, fs \in FileSeqs(MaxFiles) :
            InitRuns({1}, <<Elsewhere>> \o pre \o fs)

info(r) == items[r][idx[r]]

\* Invocations run at once when the caller does not serialize them.  A run
\* that has not ended is preempted by another at most MaxPreemptions times.
Ended(r) == pc[r] \in {"done", "raised", "list_failed"}

Turn(r) ==
    /\ r \in runs
    /\ LET free == IF sched.last \in {0, r} THEN TRUE ELSE Ended(sched.last)
       IN /\ IF free THEN TRUE ELSE sched.preemptions < MaxPreemptions
          /\ sched' = [last |-> r,
                       preemptions |-> sched.preemptions + (IF free THEN 0 ELSE 1)]

\* Lines 162-172: the one listing call.
ListChildren(r) ==
    /\ Turn(r)
    /\ pc[r] = "list"
    /\ items' = [items EXCEPT ![r] = Listing(store)]
    /\ pc' = [pc EXCEPT ![r] = "loop"]
    /\ UNCHANGED <<store, runs, idx, processed_count, loc, result, moved, log, probe>>

\* Lines 173-174: the listing raises HttpError, the handler RuntimeError.
ListFails(r) ==
    /\ Turn(r)
    /\ pc[r] = "list"
    /\ pc' = [pc EXCEPT ![r] = "list_failed"]
    /\ UNCHANGED <<store, runs, items, idx, processed_count, loc, result, moved, log, probe>>

\* The listing with one field of one entry left out of the response.
ListChildrenPartial(r) ==
    /\ Turn(r)
    /\ pc[r] = "list"
    /\ \E i \in DOMAIN Listing(store), f \in Fields :
          items' = [items EXCEPT ![r] = [Listing(store) EXCEPT ![i].has = Fields \ {f}]]
    /\ pc' = [pc EXCEPT ![r] = "loop"]
    /\ UNCHANGED <<store, runs, idx, processed_count, loc, result, moved, log, probe>>

\* The for loop moves to the next item; the locals of the old one are dead
\* (each is assigned again before it is read).
NextItem(r) ==
    /\ idx' = [idx EXCEPT ![r] = @ + 1]
    /\ pc' = [pc EXCEPT ![r] = "loop"]
    /\ loc' = [loc EXCEPT ![r] = LocInit]

AtItem(r) == r \in runs /\ pc[r] = "loop" /\ idx[r] <= Len(items[r])

\* Lines 181-182: info['id'], info['name'] raise KeyError outside the try.
ItemKeyError(r) ==
    /\ Turn(r)
    /\ AtItem(r)
    /\ ~({"id", "name"} \subseteq info(r).has)
    /\ pc' = [pc EXCEPT ![r] = "raised"]
    /\ UNCHANGED <<store, runs, items, idx, processed_count, loc, result, moved, log, probe>>

\* info.get of a key the entries do not have.
MimeOfWrongKey(e) == "None"

\* info.get('mimeType')
MimeOf(e) == IF "mimeType" \in e.has THEN e.mimeType ELSE "None"

\* info.get('createdTime')
CreatedOf(e) == IF "createdTime" \in e.has THEN e.createdTime ELSE None

IsFileItem(r) ==
    /\ AtItem(r)
    /\ {"id", "name"} \subseteq info(r).has
    /\ MimeOf(info(r)) # FOLDER

\* Lines 186-188.
SkipFolder(r) ==
    /\ Turn(r)
    /\ AtItem(r)
    /\ {"id", "name"} \subseteq info(r).has
    /\ MimeOf(info(r)) = FOLDER
    /\ NextItem(r)
    /\ log' = [log EXCEPT ![r] = @ \cup {<<"folder", info(r).id>>}]
    /\ UNCHANGED <<store, runs, items, processed_count, result, moved, probe>>

\* Lines 191-204, the date found.
ResolveDate(r) ==
    /\ Turn(r)
    /\ IsFileItem(r)
    /\ Resolve(info(r).name, CreatedOf(info(r))) # Fail
    /\ LET ym == Resolve(info(r).name, CreatedOf(info(r)))
       IN loc' = [loc EXCEPT ![r].year = ym[1], ![r].month = ym[2]]
    /\ pc' = [pc EXCEPT ![r] = "year_find"]
    /\ UNCHANGED <<store, runs, items, idx, processed_count, result, moved, log, probe>>

\* Lines 191-204 raise; line 224 catches.
ResolveFails(r) ==
    /\ Turn(r)
    /\ IsFileItem(r)
    /\ Resolve(info(r).name, CreatedOf(info(r))) = Fail
    /\ NextItem(r)
    /\ log' = [log EXCEPT ![r] = @ \cup {<<"error", info(r).id>>}]
    /\ UNCHANGED <<store, runs, items, processed_count, result, moved, probe>>

\* The three call sites of find_or_create_folder: line 125, line 127, line 208.
Stage(r) == CASE pc[r] \in {"year_find", "year_create"} -> "year"
              [] pc[r] \in {"months_find", "months_create"} -> "months"
              [] pc[r] \in {"month_find", "month_create"} -> "month"
              [] OTHER -> "none"

folder_name(r) == CASE Stage(r) = "year" -> Str(loc[r].year)
                    [] Stage(r) = "months" -> MONTH_MAP[loc[r].m]
                    [] Stage(r) = "month" -> MONTH_MAP[loc[r].month]

parent_id(r) == IF Stage(r) = "year" THEN ROOT ELSE loc[r].year_folder_id

\* The month loop as range(1, 12): December is left out.
ReturnedShort(r, id) ==
    CASE Stage(r) = "year" ->
           /\ loc' = [loc EXCEPT ![r].year_folder_id = id, ![r].m = 1]
           /\ pc' = [pc EXCEPT ![r] = "months_find"]
      [] Stage(r) = "months" ->
           IF loc[r].m < 11
           THEN /\ loc' = [loc EXCEPT ![r].m = @ + 1]
                /\ pc' = [pc EXCEPT ![r] = "months_find"]
           ELSE /\ loc' = [loc EXCEPT ![r].m = 0]
                /\ pc' = [pc EXCEPT ![r] = "month_find"]
      [] Stage(r) = "month" ->
           /\ loc' = [loc EXCEPT ![r].month_folder_id = id]
           /\ pc' = [pc EXCEPT ![r] = "get"]

\* find_or_create_folder returns id to its call site.
Returned(r, id) ==
    CASE Stage(r) = "year" ->
           /\ loc' = [loc EXCEPT ![r].year_folder_id = id, ![r].m = 1]
           /\ pc' = [pc EXCEPT ![r] = "months_find"]
      [] Stage(r) = "months" ->
           IF loc[r].m < 12
           THEN /\ loc' = [loc EXCEPT ![r].m = @ + 1]
                /\ pc' = [pc EXCEPT ![r] = "months_find"]
           ELSE /\ loc' = [loc EXCEPT ![r].m = 0]
                /\ pc' = [pc EXCEPT ![r] = "month_find"]
      [] Stage(r) = "month" ->
           /\ loc' = [loc EXCEPT ![r].month_folder_id = id]
           /\ pc' = [pc EXCEPT ![r] = "get"]

\* Lines 85-99: the query finds folders; folders[0] is whichever the store
\* lists first.
FindFolderHit(r) ==
    /\ Turn(r)
    /\ pc[r] \in {"year_find", "months_find", "month_find"}
    /\ \E id \in FoundFolders(store, folder_name(r), parent_id(r)) : Returned(r, id)
    /\ UNCHANGED <<store, runs, items, idx, processed_count, result, moved, log, probe>>

\* Lines 85-100: the query finds nothing.
FindFolderMiss(r) ==
    /\ Turn(r)
    /\ pc[r] \in {"year_find", "months_find", "month_find"}
    /\ FoundFolders(store, folder_name(r), parent_id(r)) = {}
    /\ pc' = [pc EXCEPT ![r] = CASE Stage(r) = "year" -> "year_create"
                                 [] Stage(r) = "months" -> "months_create"
                                 [] Stage(r) = "month" -> "month_create"]
    /\ UNCHANGED <<store, runs, items, idx, processed_count, loc, result, moved, log, probe>>

\* Lines 101-109.
CreateFolder(r) ==
    /\ Turn(r)
    /\ pc[r] \in {"year_create", "months_create", "month_create"}
    /\ store' = Append(store, NewFolder(folder_name(r), parent_id(r), r))
    /\ Returned(r, Len(store) + 1)
    /\ UNCHANGED <<runs, items, idx, processed_count, result, moved, log, probe>>

\* Lines 211-214.
GetParents(r) ==
    /\ Turn(r)
    /\ pc[r] = "get"
    /\ loc' = [loc EXCEPT ![r].current_parents = store[info(r).id].parents]
    /\ pc' = [pc EXCEPT ![r] = "update"]
    /\ UNCHANGED <<store, runs, items, idx, processed_count, result, moved, log, probe>>

\* Lines 216-223.
UpdateParents(r) ==
    /\ Turn(r)
    /\ pc[r] = "update"
    /\ store' = [store EXCEPT ![info(r).id].parents =
                    UpdatedParents(@, loc[r].month_folder_id, loc[r].current_parents)]
    /\ processed_count' = [processed_count EXCEPT ![r] = @ + 1]
    /\ moved' = [moved EXCEPT ![r] = @ \cup {info(r).id}]
    /\ NextItem(r)
    /\ UNCHANGED <<runs, items, result, log, probe>>

StoreCallPcs == {"year_find", "year_create", "months_find", "months_create",
                 "month_find", "month_create", "get", "update"}

\* The error handled outside the loop: the entries after the failing one
\* are not visited.
HttpErrorBreaks(r) ==
    /\ Turn(r)
    /\ pc[r] \in StoreCallPcs
    /\ idx' = [idx EXCEPT ![r] = Len(items[r]) + 1]
    /\ pc' = [pc EXCEPT ![r] = "loop"]
    /\ loc' = [loc EXCEPT ![r] = LocInit]
    /\ log' = [log EXCEPT ![r] = @ \cup {<<"error", info(r).id>>}]
    /\ UNCHANGED <<store, runs, items, processed_count, result, moved, probe>>

\* The count incremented in the except block as well.
HttpErrorCounted(r) ==
    /\ Turn(r)
    /\ pc[r] \in StoreCallPcs
    /\ NextItem(r)
    /\ processed_count' = [processed_count EXCEPT ![r] = @ + 1]
    /\ log' = [log EXCEPT ![r] = @ \cup {<<"error", info(r).id>>}]
    /\ UNCHANGED <<store, runs, items, result, moved, probe>>

\* A store call of the try block raises HttpError (find_or_create_folder
\* turns its own into RuntimeError); line 224 catches it.
HttpError(r) ==
    /\ Turn(r)
    /\ pc[r] \in StoreCallPcs
    /\ NextItem(r)
    /\ log' = [log EXCEPT ![r] = @ \cup {<<"error", info(r).id>>}]
    /\ UNCHANGED <<store, runs, items, processed_count, result, moved, probe>>

\* Lines 227-233.
Return(r) ==
    /\ Turn(r)
    /\ pc[r] = "loop"
    /\ idx[r] > Len(items[r])
    /\ result' = [result EXCEPT ![r] = [statusCode |-> 200, processed |-> processed_count[r],
                                        totalItemsFound |-> Len(items[r])]]
    /\ pc' = [pc EXCEPT ![r] = "done"]
    /\ UNCHANGED <<store, runs, items, idx, processed_count, loc, moved, log, probe>>

Next == \E r \in RunIds :
            \/ ListChildren(r) \/ ListFails(r)
            \/ SkipFolder(r) \/ ResolveDate(r) \/ ResolveFails(r)
            \/ FindFolderHit(r) \/ FindFolderMiss(r) \/ CreateFolder(r)
            \/ GetParents(r) \/ UpdateParents(r) \/ HttpError(r)
            \/ Return(r)

Spec == Init /\ [][Next]_vars

----------------------------------------------------------------------------
(* A run whose listing response may lack a field *)

NextShape == \E r \in RunIds :
                 \/ ListChildren(r) \/ ListChildrenPartial(r) \/ ItemKeyError(r)
                 \/ SkipFolder(r) \/ ResolveDate(r) \/ ResolveFails(r)
                 \/ FindFolderHit(r) \/ FindFolderMiss(r) \/ CreateFolder(r)
                 \/ GetParents(r) \/ UpdateParents(r)
                 \/ Return(r)

SpecShape == Init /\ [][NextShape]_vars

----------------------------------------------------------------------------
(* One run alone, or two runs at once on the same root *)

InitRace == \E rs \in {{1}, {1, 2}}, f \in FileChoices :
                InitRuns(rs, <<Elsewhere, f>>)

NextRace == \E r \in RunIds :
                \/ ListChildren(r)
                \/ SkipFolder(r) \/ ResolveDate(r) \/ ResolveFails(r)
                \/ FindFolderHit(r) \/ FindFolderMiss(r) \/ CreateFolder(r)
                \/ GetParents(r) \/ UpdateParents(r)
                \/ Return(r)

SpecRace == InitRace /\ [][NextRace]_vars

----------------------------------------------------------------------------
(* Date resolution taken alone: lines 191-204 on one name *)

ProbePrefixes == { <<>>, Codes(<<"x">>), Codes(<<"1">>), Codes(<<"I","n","v"," ">>) }

ProbeDates == { <<>>,
                Codes(<<"F","e","b"," ","2","7",","," ","2","0","2","5">>),
                Codes(<<"0","2","/","2","7","/","2","0","2","5">>),
                Codes(<<"2","0","2","5","-","0","2","-","2","7">>),
                Codes(<<"1","2","/","2","7","/","2","0","2","5">>),
                Codes(<<"f","e","b"," ","3","0",","," ","2","0","2","5">>),
                Codes(<<"2","0","2","4","-","1","1","-","0","3">>),
                \* a carriage return for the blank, Arabic-Indic digits for the year
                Codes(<<"F","e","b">>) \o <<13>> \o Codes(<<"2","7",","," ","2","0","2","5">>),
                <<1634, 1632, 1634, 1637>> \o Codes(<<"-","0","2","-","2","7">>) }

ProbeSuffixes == { <<>>, Codes(<<"y">>), Codes(<<"1">>), Codes(<<" ","3","/","1","/","2","0","2","5">>) }

ProbeExts == { Codes(<<".","p","d","f">>), Codes(<<".","P","D","F">>), Codes(<<".","t","x","t">>) }

\* createdTime as Drive writes it, and without the seconds.
ProbeCreated == { Time2024Nov, Time2025Feb,
                  Codes(<<"2","0","2","4","-","1","1","-","0","3","T","1","0",":","0","0","Z">>) }

ProbeNames == {a \o d \o b \o e : a \in ProbePrefixes, d \in ProbeDates,
                                  b \in ProbeSuffixes, e \in ProbeExts}

InitResolve ==
    /\ store = <<>>
    /\ runs = {}
    /\ pc = <<>>
    /\ items = <<>>
    /\ idx = <<>>
    /\ processed_count = <<>>
    /\ loc = <<>>
    /\ result = <<>>
    /\ moved = <<>>
    /\ log = <<>>
    /\ sched = [last |-> 0, preemptions |-> 0]
    /\ \E n \in ProbeNames, c \in ProbeCreated :
          probe = [name |-> n, created |-> c, out |-> <<>>, stage |-> "input"]

ResolveProbe ==
    /\ probe.stage = "input"
    /\ probe' = [probe EXCEPT !.out = Resolve(probe.name, probe.created),
                              !.stage = "resolved"]
    /\ UNCHANGED <<store, runs, pc, items, idx, processed_count, loc, result, moved, log, sched>>

NextResolve == ResolveProbe

SpecResolve == InitResolve /\ [][NextResolve]_vars

----------------------------------------------------------------------------
(* What the properties speak of, read off the store itself *)

LiveFolder(id) == id \in DOMAIN store /\ store[id].kind = FOLDER /\ ~store[id].trashed

\* id is a live folder of that name under that parent.
Named(id, name, parent) ==
    LiveFolder(id) /\ store[id].name = name /\ parent \in store[id].parents

\* t is root/<y>/<month name of mth>.
IsMonthFolder(t, y, mth) ==
    \E yf \in DOMAIN store : Named(yf, Str(y), ROOT) /\ Named(t, MONTH_MAP[mth], yf)

\* The parents of file f are exactly one folder, root/<ym[1]>/<month ym[2]>.
FiledUnder(f, ym) ==
    /\ ym # Fail
    /\ \E t \in DOMAIN store : IsMonthFolder(t, ym[1], ym[2]) /\ store[f].parents = {t}

Duplicates(a, b) ==
    /\ a # b /\ LiveFolder(a) /\ LiveFolder(b)
    /\ store[a].name = store[b].name
    /\ store[a].parents \cap store[b].parents # {}

\* The store held no folder under the root when the runs began.
EmptyAtStart == \A id \in DOMAIN store : store[id].creator = 0 /\ store[id].kind = FOLDER => id = 1

PostEnsure == {"month_find", "month_create", "get", "update"}

ErrorLogged(r, id) == <<"error", id>> \in log[r]
FolderLogged(r, id) == <<"folder", id>> \in log[r]

\* C1: an error in a per-file step is caught at the file boundary: the run
\* never raises out of the loop, the failing file is not counted, every
\* earlier entry of the listing has been moved, skipped as a folder or skipped
\* for its own error, every moved file lies under the folder of its own date,
\* the loop ends only past the last entry, and the run returns 200.
C1_ErrorsCaughtPerFile ==
    \A r \in runs :
       /\ pc[r] # "raised"
       /\ processed_count[r] = Cardinality(moved[r])
       /\ \A i \in DOMAIN items[r] :
             LET id == items[r][i].id
             IN /\ ErrorLogged(r, id) => id \notin moved[r] /\ ROOT \in store[id].parents
                /\ i < idx[r] => \/ ErrorLogged(r, id)
                                 \/ FolderLogged(r, id)
                                 \/ /\ id \in moved[r]
                                    /\ FiledUnder(id, Resolve(items[r][i].name, items[r][i].createdTime))
       /\ pc[r] = "loop" => idx[r] <= Len(items[r]) + 1
       /\ pc[r] = "done" => /\ idx[r] = Len(items[r]) + 1
                            /\ result[r].statusCode = 200
                            /\ result[r].processed = Cardinality(moved[r])

\* A run returned after a store call failed for one file and a later file
\* of the listing was moved.
C1_Witness ==
    \E r \in runs : \E i, j \in DOMAIN items[r] :
       /\ pc[r] = "done" /\ i < j
       /\ ErrorLogged(r, items[r][i].id)
       /\ Resolve(items[r][i].name, items[r][i].createdTime) # Fail
       /\ items[r][j].id \in moved[r]

\* C2: a file counted as processed has exactly one parent, the folder
\* root/<year>/<month name> of the date resolved for it; the root and every
\* other former parent are gone.
C2_ProcessedFileHasOnlyTarget ==
    \A r \in runs : \A f \in moved[r] :
       FiledUnder(f, Resolve(store[f].name, store[f].createdTime))

\* A file that also lay in a folder outside the root has been moved.
C2_Witness ==
    \E r \in runs : \E i \in DOMAIN items[r] :
       /\ items[r][i].id \in moved[r]
       /\ 1 \in loc[r].current_parents \/ idx[r] > i
       /\ store[items[r][i].id].name[1] = Ord("I")
       /\ ROOT \notin store[items[r][i].id].parents
       /\ 1 \notin store[items[r][i].id].parents

\* C4: with no concurrent writer no two live folders of one name share a
\* parent, a folder is created only when none of that name is under that
\* parent, the identifiers returned are those of live folders of the name
\* asked for under the parent asked for, the call of line 208 never creates,
\* and two files of the same date end under the same folder.
C4_FindOrCreateIdempotent ==
    /\ \A a, b \in DOMAIN store : ~Duplicates(a, b)
    /\ \A r \in runs :
          /\ pc[r] \in {"year_create", "months_create", "month_create"}
                => ~\E id \in DOMAIN store : Named(id, folder_name(r), parent_id(r))
          /\ pc[r] # "month_create"
          /\ pc[r] \in {"months_find", "months_create"} \cup PostEnsure
                => Named(loc[r].year_folder_id, Str(loc[r].year), ROOT)
          /\ pc[r] \in {"get", "update"}
                => Named(loc[r].month_folder_id, MONTH_MAP[loc[r].month], loc[r].year_folder_id)
          /\ \A f, g \in moved[r] :
                Resolve(store[f].name, store[f].createdTime) = Resolve(store[g].name, store[g].createdTime)
                   => store[f].parents = store[g].parents

\* Two files of the same date lie under one month folder that was in the
\* store before the run.
C4_Witness ==
    \E r \in runs : \E f, g \in moved[r] : \E t \in DOMAIN store :
       /\ f # g
       /\ store[f].parents = {t} /\ store[g].parents = {t}
       /\ store[t].creator = 0

\* C5: once ensure_year_and_month_folders has returned for year Y, the year
\* folder Y under the root holds a live folder for each of the twelve month
\* names, whatever was there before; for the first listed entry on a store
\* with no folder under the root, the root then holds exactly one folder and
\* that folder exactly twelve.
C5_TwelveMonthsProvisioned ==
    \A r \in runs :
       pc[r] \in PostEnsure =>
          /\ Named(loc[r].year_folder_id, Str(loc[r].year), ROOT)
          /\ \A k \in 1..12 : \E id \in DOMAIN store :
                Named(id, MONTH_MAP[k], loc[r].year_folder_id)
          /\ EmptyAtStart /\ idx[r] = 1 =>
                /\ Cardinality({id \in DOMAIN store : LiveFolder(id) /\ ROOT \in store[id].parents}) = 1
                /\ Cardinality({id \in DOMAIN store :
                                  LiveFolder(id) /\ loc[r].year_folder_id \in store[id].parents}) = 12

\* The year folder was there with some of its months, one of them in the
\* trash, and the reconciliation has completed.
C5_Witness ==
    \E r \in runs :
       /\ pc[r] = "get"
       /\ store[loc[r].year_folder_id].creator = 0
       /\ \E a, b \in DOMAIN store :
             /\ store[a].trashed /\ loc[r].year_folder_id \in store[a].parents
             /\ Named(b, store[a].name, loc[r].year_folder_id)

\* C6: a name that does not match the pattern is dated by createdTime; a name
\* that matches is dated by its matched text alone, and when no layout parses
\* that text the file is skipped and stays where it was.
C6_DatePrecedence ==
    \A r \in runs : \A i \in DOMAIN items[r] :
       LET e  == items[r][i]
           g  == PatternGroup(e.name)
           ym == IF g = NoMatch THEN FromIsoFormat(ReplaceZ(e.createdTime))
                 ELSE parse_date_string(g)
       IN e.mimeType # FOLDER =>
             /\ i = idx[r] /\ pc[r] \in StoreCallPcs => <<loc[r].year, loc[r].month>> = ym
             /\ e.id \in moved[r] => FiledUnder(e.id, ym)
             /\ i < idx[r] /\ g # NoMatch /\ ym = Fail =>
                   /\ ErrorLogged(r, e.id)
                   /\ e.id \notin moved[r]
                   /\ ROOT \in store[e.id].parents

\* The run returned; a file whose name matched but did not parse was skipped
\* although its createdTime is a good date, and a file whose name did not
\* match lies under the folder of its createdTime.
C6_Witness ==
    \E r \in runs : \E i, j \in DOMAIN items[r] :
       /\ pc[r] = "done"
       /\ PatternGroup(items[r][i].name) # NoMatch
       /\ parse_date_string(PatternGroup(items[r][i].name)) = Fail
       /\ FromIsoFormat(ReplaceZ(items[r][i].createdTime)) # Fail
       /\ ErrorLogged(r, items[r][i].id)
       /\ PatternGroup(items[r][j].name) = NoMatch
       /\ items[r][j].id \in moved[r]

\* C7: in the summary totalItemsFound is the number of things that lay under
\* the root when it was listed, folders and failed files included, and the
\* processed count is the number of listed non-folder entries that have left
\* the root; processed <= non-folder entries <= totalItemsFound.
C7_SummaryCounts ==
    \A r \in runs :
       pc[r] = "done" =>
          LET n       == Len(items[r])
              files   == {i \in 1..n : items[r][i].mimeType # FOLDER}
              updated == {i \in files : ROOT \notin store[items[r][i].id].parents}
              listed  == {id \in DOMAIN store :
                            /\ store[id].creator = 0 /\ ~store[id].trashed
                            /\ ROOT \in store[id].parents \/ id \in moved[r]}
          IN /\ result[r].totalItemsFound = n
             /\ n = Cardinality(listed)
             /\ result[r].processed = Cardinality(updated)
             /\ Cardinality(updated) <= Cardinality(files)
             /\ Cardinality(files) <= n

\* A summary of one processed file among three entries: a folder, a file
\* that failed and a file that was moved.
C7_Witness ==
    \E r \in runs :
       /\ pc[r] = "done"
       /\ result[r].processed = 1 /\ result[r].totalItemsFound = 3
       /\ \E i, j \in DOMAIN items[r] :
             FolderLogged(r, items[r][i].id) /\ ErrorLogged(r, items[r][j].id)

\* C9: a listed entry whose kind is folder is skipped: no store call is made
\* for it, it is never counted, and its name and parents stay as listed.
C9_FoldersSkipped ==
    \A r \in runs : \A i \in DOMAIN items[r] :
       LET e == items[r][i]
       IN e.mimeType = FOLDER =>
             /\ e.id \notin moved[r]
             /\ ~ErrorLogged(r, e.id)
             /\ i = idx[r] => pc[r] = "loop"
             /\ i < idx[r] => FolderLogged(r, e.id)
             /\ store[e.id].kind = FOLDER /\ store[e.id].name = e.name
             /\ store[e.id].parents = {ROOT} /\ ~store[e.id].trashed
             /\ pc[r] = "done" => result[r].processed < result[r].totalItemsFound

\* The run returned having moved a file; a listed folder was skipped.
C9_Witness ==
    \E r \in runs : \E i \in DOMAIN items[r] :
       /\ pc[r] = "done"
       /\ items[r][i].mimeType = FOLDER
       /\ FolderLogged(r, items[r][i].id)
       /\ moved[r] # {}

\* C10: two live folders of one name under one parent exist only when two
\* runs were at work and each of them created one of the two; a run alone
\* never makes such a pair.
C10_DuplicatesNeedTwoRuns ==
    \A a, b \in DOMAIN store :
       Duplicates(a, b) =>
          /\ runs = {1, 2}
          /\ store[a].creator # 0 /\ store[b].creator # 0
          /\ store[a].creator # store[b].creator

\* Two runs have each created the year folder of the same name under the root.
C10_Witness ==
    \E a, b \in DOMAIN store :
       /\ Duplicates(a, b)
       /\ ROOT \in store[a].parents \cap store[b].parents
       /\ {store[a].creator, store[b].creator} = {1, 2}

\* The first text of a name that satisfies an alternative of the pattern,
\* and the three spellings of 27 February 2025.
FirstGroup(s) ==
    LET i == CHOOSE x \in MatchStarts(s) : \A j \in MatchStarts(s) : x <= j
    IN SubSeq(s, i, AltEnd(s, i) - 1)

Contains(s, t) == \E i \in 1..(Len(s) - Len(t) + 1) : SubSeq(s, i, i + Len(t) - 1) = t

Feb27Texts == { Codes(<<"F","e","b"," ","2","7",","," ","2","0","2","5">>),
                Codes(<<"0","2","/","2","7","/","2","0","2","5">>),
                Codes(<<"2","0","2","5","-","0","2","-","2","7">>) }

\* C3 as claimed: for a name that ends in .pdf and holds text in one of the
\* three layouts, the resolution is the date of the FIRST such text, and
\* (2025, 2) for <text>Feb 27, 2025<text>.pdf, <text>02/27/2025<text>.pdf and
\* <text>2025-02-27<text>.pdf.
C3_ResolvesFirstDateInName ==
    probe.stage = "resolved" /\ MatchStarts(probe.name) # {} =>
       /\ probe.out = parse_date_string(FirstGroup(probe.name))
       /\ (\E t \in Feb27Texts : Contains(probe.name, t)) => probe.out = <<2025, 2>>

\* C8 as claimed: a listed entry that lacks a field is skipped like any
\* other failing entry and the run goes on to return its summary: no run
\* raises out of the loop.
C8_MissingFieldIsSkipped ==
    \A r \in runs : pc[r] # "raised"

====
